---- MODULE Spec2Model ----
(***************************************************************************)
(* Attendance tracking and geofence engine of PointageApp-Back.           *)
(*                                                                         *)
(* The model follows src/src/attendance/attendance.service.ts (the        *)
(* AttendanceService wired into the application), deleteUser of           *)
(* src/src/user/user.service.ts and register of                           *)
(* src/src/auth/auth.service.ts over the three tables of                  *)
(* src/prisma/schema.prisma that they read and write: User, Location and  *)
(* Attendance.                                                             *)
(*                                                                         *)
(* A service call that awaits several storage calls is one action per     *)
(* storage call; what it has read so far is kept in a slot of reqs.       *)
(*                                                                         *)
(* Spec      a call arrives only when no call is in flight                *)
(*           (non-overlapping calls).                                      *)
(* ConcSpec  calls overlap: their storage calls interleave.               *)
(***************************************************************************)
EXTENDS Integers, Sequences, FiniteSets

VARIABLES
    locations,   \* table Location, in the order findMany() enumerates it
    attendance,  \* table Attendance: a set of rows
    users,       \* table User: a set of rows (id, email)
    now,         \* the wall clock read by new Date()
    nextLocId,   \* next fresh Location.id   (cuid(): never reused)
    nextAttId,   \* next fresh Attendance.id (cuid(): never reused)
    nextUserId,  \* next fresh User.id, an index of UserIdPool (cuid(): never reused)
    result,      \* outcome of the last completed service call
    reqs,        \* calls in flight, between two of their storage calls
    steps        \* calls arrived and clock ticks so far (bounds the runs explored)

vars == <<locations, attendance, users, now, nextLocId, nextAttId, nextUserId, result, reqs,
          steps>>

(***************************************************************************)
(* Bounds of the model.                                                    *)
(***************************************************************************)
MaxSteps == 5   \* service calls and clock ticks in one run
MaxReqs == 2    \* calls that can be in flight together
ConcSteps == 3  \* calls and clock ticks in one run of overlapping calls

\* SQL NULL / JavaScript null in an integer-valued column or variable.
NULL == 0 - 1

\* The ids of the rows of table User at the start; "ghost" is an id that
\* never had a row.
Users == {"u1", "u2"}
AllUserIds == Users \cup {"ghost"}

\* The ids cuid() gives to the rows of table User, in the order they are
\* created: the rows at the start have the first ones.
UserIdPool == <<"u1", "u2", "u3", "u4">>

\* User.email of the rows at the start (unique).
EmailAtStart == [u \in Users |-> IF u = "u1" THEN "u1@example.org" ELSE "u2@example.org"]
UserRows == { [id |-> u, email |-> EmailAtStart[u]] : u \in Users }

\* The addresses given to register: one that a row at the start has, one
\* that none has.
RegisterEmails == {"u1@example.org", "new@example.org"}

UserIds(us) == { u.id : u \in us }

\* Positions <<latitude, longitude>> (whole degrees) a client can report.
\* Latitude 0 is a falsy value, which calculateDistance treats as missing.
Positions == { <<1, 1>>, <<1, 2>>, <<0, 1>> }

\* Arguments the administrator uses for createLocation / updateLocation.
Names == {"HQ", "Lab"}
Radii == {100, 120000}
CreateArgs ==
    { [name |-> n, latitude |-> 1, longitude |-> 1, radius |-> r] : n \in Names, r \in Radii }
UpdateData ==
    { [radius |-> 100], [radius |-> 120000], [name |-> "Lab"], [name |-> ""],
      [latitude |-> 2, longitude |-> 2] }

(***************************************************************************)
(* calculateDistance: the haversine distance in metres, or Infinity when   *)
(* one of the four arguments is falsy.                                     *)
(*                                                                         *)
(* R * c is a floating-point value.  On the whole-degree grid 0..2 used    *)
(* here it is tabulated, rounded up to the next whole metre, so that for   *)
(* the integer radii of the model  d <= radius  has the value the code     *)
(* computes.  The formula depends on lat1, on lat2 and on lon2 - lon1; the *)
(* table is indexed by these three, in the order of the arguments, and     *)
(* each entry is the value of the code's expression for that argument      *)
(* order:  HaversineTable[lat1 + 1][lat2 + 1][lon2 - lon1 + 3].            *)
(***************************************************************************)
Infinity == 999999999

HaversineTable ==
    << << <<222390, 111195,      0, 111195, 222390>>,
          <<248630, 157250, 111195, 157250, 248630>>,
          <<314475, 248630, 222390, 248630, 314475>> >>,
       << <<248630, 157250, 111195, 157250, 248630>>,
          <<222356, 111178,      0, 111178, 222356>>,
          <<248569, 157226, 111195, 157226, 248569>> >>,
       << <<314475, 248630, 222390, 248630, 314475>>,
          <<248569, 157226, 111195, 157226, 248569>>,
          <<222255, 111128,      0, 111128, 222255>> >> >>

Haversine(lat1, lon1, lat2, lon2) ==
    HaversineTable[lat1 + 1][lat2 + 1][lon2 - lon1 + 3]

\* !x for a number x: zero, or a missing value (undefined / null, written
\* NULL).  The other falsy number, NaN, takes the same branch as NULL.
Falsy(x) == x = 0 \/ x = NULL

\* Mutant: only the first point is tested for falsy coordinates (a missing
\* coordinate of the second point makes the formula NaN, and NaN <= radius
\* is false, which Infinity <= radius is too).
calculateDistance_FirstPointOnly(lat1, lon1, lat2, lon2) ==
    IF Falsy(lat1) \/ Falsy(lon1) \/ lat2 = NULL \/ lon2 = NULL
    THEN Infinity
    ELSE Haversine(lat1, lon1, lat2, lon2)

\* Mutant: no test for falsy coordinates, the formula is applied to zeros
\* (a missing coordinate makes it NaN, which compares like Infinity).
calculateDistance_NoFalsyGuard(lat1, lon1, lat2, lon2) ==
    IF lat1 = NULL \/ lon1 = NULL \/ lat2 = NULL \/ lon2 = NULL
    THEN Infinity
    ELSE Haversine(lat1, lon1, lat2, lon2)

calculateDistance(lat1, lon1, lat2, lon2) ==
    IF Falsy(lat1) \/ Falsy(lon1) \/ Falsy(lat2) \/ Falsy(lon2)
    THEN Infinity
    ELSE Haversine(lat1, lon1, lat2, lon2)

(***************************************************************************)
(* isValidLocation: the first location, in enumeration order, whose circle *)
(* contains the position; NULL when there is none.  The code returns       *)
(* {id, name}; the id stands for the pair here, the name is read with      *)
(* LocationName.                                                           *)
(***************************************************************************)
\* Mutant: the nearest matching location is returned (on equal distances
\* the earlier one).
RECURSIVE FirstMatch_Nearest(_, _, _, _)
FirstMatch_Nearest(locs, i, latitude, longitude) ==
    IF i > Len(locs) THEN NULL
    ELSE LET d(k) == calculateDistance(latitude, longitude,
                                       locs[k].latitude, locs[k].longitude)
             matching == { k \in i..Len(locs) : d(k) <= locs[k].radius }
         IN  IF matching = {} THEN NULL
             ELSE locs[CHOOSE k \in matching :
                         \A j \in matching : d(k) < d(j) \/ (d(k) = d(j) /\ k <= j)].id

\* Mutant: the boundary is excluded (distance < radius).
RECURSIVE FirstMatch_Strict(_, _, _, _)
FirstMatch_Strict(locs, i, latitude, longitude) ==
    IF i > Len(locs) THEN NULL
    ELSE IF calculateDistance(latitude, longitude,
                              locs[i].latitude, locs[i].longitude) < locs[i].radius
         THEN locs[i].id
         ELSE FirstMatch_Strict(locs, i + 1, latitude, longitude)

RECURSIVE FirstMatch(_, _, _, _)
FirstMatch(locs, i, latitude, longitude) ==
    IF i > Len(locs) THEN NULL
    ELSE IF calculateDistance(latitude, longitude,
                              locs[i].latitude, locs[i].longitude) <= locs[i].radius
         THEN locs[i].id
         ELSE FirstMatch(locs, i + 1, latitude, longitude)

isValidLocation(locs, latitude, longitude) == FirstMatch(locs, 1, latitude, longitude)

LocationIds(locs) == { locs[i].id : i \in 1..Len(locs) }

\* attendance.location?.name || 'Hors zone': 'Hors zone' when the record has
\* no location and also when the location's name is the empty string, which
\* || takes for false.
LocationName(locs, id) ==
    IF id \in LocationIds(locs)
    THEN LET name == locs[CHOOSE i \in 1..Len(locs) : locs[i].id = id].name
         IN  IF name = "" THEN "Hors zone" ELSE name
    ELSE "Hors zone"

(***************************************************************************)
(* prisma.attendance.findFirst({ where: { userId, clockOut: null } }):     *)
(* the ids it may return.  No orderBy is given, so with several matching   *)
(* rows any of them may come back; with none the result is null.           *)
(***************************************************************************)
OpenRecords(att, userId) == { a \in att : a.userId = userId /\ a.clockOut = NULL }

\* Mutant: the clockOut: null condition of the query is lost, so any record
\* of the user may come back.
findFirstOpen_AnyRecord(att, userId) ==
    IF { a \in att : a.userId = userId } = {} THEN {NULL}
    ELSE { a.id : a \in { b \in att : b.userId = userId } }

findFirstOpen(att, userId) ==
    IF OpenRecords(att, userId) = {} THEN {NULL}
    ELSE { a.id : a \in OpenRecords(att, userId) }

Row(att, id) == CHOOSE a \in att : a.id = id

(***************************************************************************)
(* The checks of clockIn and clockOut that follow the two reads, in the    *)
(* order the code makes them: the geofence first, the open record second.  *)
(***************************************************************************)
\* Mutant: the open-record check is missing.
clockInOutcome_NoOpenCheck(lastAttendance, validLocation) ==
    IF validLocation = NULL THEN "OutOfZone" ELSE "ok"

\* Mutant: the open-record check is made before the geofence check.
clockInOutcome_OpenFirst(lastAttendance, validLocation) ==
    IF lastAttendance # NULL THEN "AlreadyClockedIn"
    ELSE IF validLocation = NULL THEN "OutOfZone"
    ELSE "ok"

clockInOutcome(lastAttendance, validLocation) ==
    IF validLocation = NULL THEN "OutOfZone"
    ELSE IF lastAttendance # NULL THEN "AlreadyClockedIn"
    ELSE "ok"

clockOutOutcome(openAttendance, validLocation) ==
    IF validLocation = NULL THEN "OutOfZone"
    ELSE IF openAttendance = NULL THEN "NoOpenRecord"
    ELSE "ok"

\* Mutant: the record is created without its locationId.
clockInData_NoLocation(id, userId, latitude, longitude, validLocation, at) ==
    [id |-> id, userId |-> userId, clockIn |-> at, clockOut |-> NULL,
     latitude |-> latitude, longitude |-> longitude, locationId |-> NULL]

\* data of prisma.attendance.create in clockIn
clockInData(id, userId, latitude, longitude, validLocation, at) ==
    [id |-> id, userId |-> userId, clockIn |-> at, clockOut |-> NULL,
     latitude |-> latitude, longitude |-> longitude, locationId |-> validLocation]

\* Mutant: the update leaves the stored coordinates alone.
clockOutData_KeepPosition(row, latitude, longitude, at) ==
    [row EXCEPT !.clockOut = at]

\* Mutant: the update writes the two timestamps the wrong way round.
clockOutData_SwappedStamps(row, latitude, longitude, at) ==
    [row EXCEPT !.clockIn = at, !.clockOut = row.clockIn,
                !.latitude = latitude, !.longitude = longitude]

\* data of prisma.attendance.update in clockOut, applied to the row
clockOutData(row, latitude, longitude, at) ==
    [row EXCEPT !.clockOut = at, !.latitude = latitude, !.longitude = longitude]

Response(op, userId, latitude, longitude, kind, id) ==
    [op |-> op, userId |-> userId, latitude |-> latitude, longitude |-> longitude,
     kind |-> kind, id |-> id]

\* A slot of reqs with no call in flight; a call in flight keeps there what
\* it has read so far and the storage call it makes next (pc).
NoRequest == [pc |-> "idle", op |-> "none", userId |-> "-", latitude |-> NULL,
              longitude |-> NULL, found |-> NULL, validLocation |-> NULL,
              at |-> NULL, id |-> NULL, data |-> <<>>]

Init ==
    /\ locations = <<>>
    /\ attendance = {}
    /\ users = UserRows
    /\ nextUserId = Cardinality(Users) + 1
    /\ now = 0
    /\ nextLocId = 1
    /\ nextAttId = 1
    /\ result = Response("none", "-", NULL, NULL, "none", NULL)
    /\ reqs = [r \in 1..MaxReqs |-> NoRequest]
    /\ steps = 0

\* Every call that arrives and every tick of the clock counts towards the
\* bound on the length of a run; the later storage calls of a call that has
\* arrived do not (a call takes at most four steps).
Step(bound) ==
    /\ steps < bound
    /\ steps' = steps + 1

\* The wall clock advances (it never goes backwards).
Tick ==
    /\ Step(MaxSteps)
    /\ now' = now + 1
    /\ UNCHANGED <<locations, attendance, users, nextUserId, nextLocId, nextAttId, result, reqs>>

Pending(r) == reqs[r].pc # "idle"

\* No call is in flight.
Idle == \A r \in 1..MaxReqs : ~Pending(r)

(***************************************************************************)
(* Clock events.  clockIn and clockOut await three storage calls one after *)
(* the other; between two of them, and between a storage call and the     *)
(* moment the call goes on with its answer, any other call may run.        *)
(*   startRequest    the call arrives and findFirst runs                   *)
(*   requestFindMany isValidLocation's findMany runs: the geofence is      *)
(*                   resolved on the registry as it is then                *)
(*   requestNewDate  the call goes on: the two checks are made and, if     *)
(*                   both pass, new Date() is read for the data of the     *)
(*                   write                                                 *)
(*   requestWrite    attendance.create (clockIn) or attendance.update      *)
(*                   (clockOut) runs                                       *)
(***************************************************************************)
startRequest(r, op, userId, latitude, longitude) ==
    /\ Step(MaxSteps)
    /\ ~Pending(r)
    /\ \E found \in findFirstOpen(attendance, userId) :
         reqs' = [reqs EXCEPT ![r] =
                    [NoRequest EXCEPT !.pc = "findMany", !.op = op, !.userId = userId,
                                      !.latitude = latitude, !.longitude = longitude,
                                      !.found = found]]
    /\ UNCHANGED <<locations, attendance, users, nextUserId, now, nextLocId, nextAttId, result>>

requestFindMany(r) ==
    /\ reqs[r].pc = "findMany"
    /\ LET q == reqs[r]
       IN  reqs' = [reqs EXCEPT ![r] =
                      [q EXCEPT !.pc = "newDate",
                                !.validLocation =
                                    isValidLocation(locations, q.latitude, q.longitude)]]
    /\ UNCHANGED <<locations, attendance, users, nextUserId, now, nextLocId, nextAttId, result, steps>>

\* Mutant: clockOut writes the open record before the checks are made.
requestNewDate_WriteBeforeCheck(r) ==
    /\ reqs[r].pc = "newDate"
    /\ LET q == reqs[r]
           kind == IF q.op = "clockIn"
                   THEN clockInOutcome(q.found, q.validLocation)
                   ELSE clockOutOutcome(q.found, q.validLocation)
       IN  /\ attendance' =
                 IF q.op = "clockOut" /\ \E a \in attendance : a.id = q.found
                 THEN (attendance \ {Row(attendance, q.found)}) \cup
                      {clockOutData(Row(attendance, q.found), q.latitude, q.longitude, now)}
                 ELSE attendance
           /\ IF kind = "ok"
              THEN /\ reqs' = [reqs EXCEPT ![r] = [q EXCEPT !.pc = "write", !.at = now]]
                   /\ UNCHANGED result
              ELSE /\ reqs' = [reqs EXCEPT ![r] = NoRequest]
                   /\ result' = Response(q.op, q.userId, q.latitude, q.longitude, kind, NULL)
    /\ UNCHANGED <<locations, users, nextUserId, now, nextLocId, nextAttId, steps>>

requestNewDate(r) ==
    /\ reqs[r].pc = "newDate"
    /\ LET q == reqs[r]
           kind == IF q.op = "clockIn"
                   THEN clockInOutcome(q.found, q.validLocation)
                   ELSE clockOutOutcome(q.found, q.validLocation)
       IN  IF kind = "ok"
           THEN /\ reqs' = [reqs EXCEPT ![r] = [q EXCEPT !.pc = "write", !.at = now]]
                /\ UNCHANGED result
           ELSE /\ reqs' = [reqs EXCEPT ![r] = NoRequest]
                /\ result' = Response(q.op, q.userId, q.latitude, q.longitude, kind, NULL)
    /\ UNCHANGED <<locations, attendance, users, nextUserId, now, nextLocId, nextAttId, steps>>

\* Mutant: location_id and user_id are not foreign keys, attendance.create
\* always stores the record.
requestWrite_NoForeignKey(r) ==
    /\ reqs[r].pc = "write"
    /\ LET q == reqs[r]
       IN  IF q.op = "clockIn"
           THEN /\ attendance' = attendance \cup
                       {clockInData(nextAttId, q.userId, q.latitude, q.longitude,
                                    q.validLocation, q.at)}
                /\ nextAttId' = nextAttId + 1
                /\ result' = Response(q.op, q.userId, q.latitude, q.longitude,
                                      "ok", nextAttId)
           ELSE IF \E a \in attendance : a.id = q.found
                THEN /\ attendance' = (attendance \ {Row(attendance, q.found)}) \cup
                            {clockOutData(Row(attendance, q.found), q.latitude,
                                          q.longitude, q.at)}
                     /\ result' = Response(q.op, q.userId, q.latitude, q.longitude,
                                           "ok", q.found)
                     /\ UNCHANGED nextAttId
                ELSE /\ result' = Response(q.op, q.userId, q.latitude, q.longitude,
                                           "RecordNotFound", NULL)
                     /\ UNCHANGED <<attendance, nextAttId>>
    /\ reqs' = [reqs EXCEPT ![r] = NoRequest]
    /\ UNCHANGED <<locations, users, nextUserId, now, nextLocId, steps>>

\* attendance.create fails when location_id names no Location row or
\* user_id no User row (foreign keys); attendance.update fails when the row
\* with the id is gone.
requestWrite(r) ==
    /\ reqs[r].pc = "write"
    /\ LET q == reqs[r]
       IN  IF q.op = "clockIn"
           THEN IF q.validLocation \in LocationIds(locations) /\ q.userId \in UserIds(users)
                THEN /\ attendance' = attendance \cup
                            {clockInData(nextAttId, q.userId, q.latitude, q.longitude,
                                         q.validLocation, q.at)}
                     /\ nextAttId' = nextAttId + 1
                     /\ result' = Response(q.op, q.userId, q.latitude, q.longitude,
                                           "ok", nextAttId)
                ELSE /\ result' = Response(q.op, q.userId, q.latitude, q.longitude,
                                           "ForeignKeyViolation", NULL)
                     /\ UNCHANGED <<attendance, nextAttId>>
           ELSE IF \E a \in attendance : a.id = q.found
                THEN /\ attendance' = (attendance \ {Row(attendance, q.found)}) \cup
                            {clockOutData(Row(attendance, q.found), q.latitude,
                                          q.longitude, q.at)}
                     /\ result' = Response(q.op, q.userId, q.latitude, q.longitude,
                                           "ok", q.found)
                     /\ UNCHANGED nextAttId
                ELSE /\ result' = Response(q.op, q.userId, q.latitude, q.longitude,
                                           "RecordNotFound", NULL)
                     /\ UNCHANGED <<attendance, nextAttId>>
    /\ reqs' = [reqs EXCEPT ![r] = NoRequest]
    /\ UNCHANGED <<locations, users, nextUserId, now, nextLocId, steps>>

(***************************************************************************)
(* Location registry.                                                      *)
(***************************************************************************)
NameTaken(locs, name, exceptId) ==
    \E i \in 1..Len(locs) : locs[i].name = name /\ locs[i].id # exceptId

\* Location.name is @unique: a second row with the name makes create throw.
createLocation(data) ==
    /\ Step(MaxSteps)
    /\ IF NameTaken(locations, data.name, NULL)
       THEN /\ result' = Response("createLocation", "-", NULL, NULL, "UniqueViolation", NULL)
            /\ UNCHANGED <<locations, attendance, users, nextUserId, now, nextLocId, nextAttId, reqs>>
       ELSE /\ locations' = Append(locations,
                   [id |-> nextLocId, name |-> data.name, latitude |-> data.latitude,
                    longitude |-> data.longitude, radius |-> data.radius])
            /\ nextLocId' = nextLocId + 1
            /\ result' = Response("createLocation", "-", NULL, NULL, "ok", nextLocId)
            /\ UNCHANGED <<attendance, users, nextUserId, now, nextAttId, reqs>>

\* Mutant: the relation cascades, the referencing records are deleted.
SetNullOnDelete_Cascade(att, locationId) ==
    { a \in att : a.locationId # locationId }

\* Attendance.location is declared onDelete: SetNull.
SetNullOnDelete(att, locationId) ==
    { IF a.locationId = locationId THEN [a EXCEPT !.locationId = NULL] ELSE a : a \in att }

RemoveLocation(locs, locationId) == SelectSeq(locs, LAMBDA l : l.id # locationId)

\* Mutant: a missing row is not an error (deleteMany instead of delete).
deleteLocation_IgnoreMissing(locationId) ==
    /\ Step(MaxSteps)
    /\ locations' = RemoveLocation(locations, locationId)
    /\ attendance' = SetNullOnDelete(attendance, locationId)
    /\ result' = Response("deleteLocation", "-", NULL, NULL, "ok", locationId)
    /\ UNCHANGED <<users, nextUserId, now, nextLocId, nextAttId, reqs>>

\* deleteLocation makes one storage call, location.delete.
deleteLocation(locationId) ==
    /\ Step(MaxSteps)
    /\ IF locationId \in LocationIds(locations)
       THEN /\ locations' = RemoveLocation(locations, locationId)
            /\ attendance' = SetNullOnDelete(attendance, locationId)
            /\ result' = Response("deleteLocation", "-", NULL, NULL, "ok", locationId)
            /\ UNCHANGED <<users, nextUserId, now, nextLocId, nextAttId, reqs>>
       ELSE /\ result' = Response("deleteLocation", "-", NULL, NULL, "LocationNotFound", locationId)
            /\ UNCHANGED <<locations, attendance, users, nextUserId, now, nextLocId, nextAttId, reqs>>

\* prisma.location.update({ where: { id }, data }): only the fields present
\* in data are written.
ApplyData(loc, data) ==
    [f \in DOMAIN loc |-> IF f \in DOMAIN data THEN data[f] ELSE loc[f]]

\* The location of the registry with the given id.
LocationById(locs, id) == locs[CHOOSE i \in 1..Len(locs) : locs[i].id = id]

InsertAt(locs, k, row) == SubSeq(locs, 1, k - 1) \o <<row>> \o SubSeq(locs, k, Len(locs))

\* updateLocation awaits location.findUnique and then location.update.
\* This is the first: a missing row ends the call with NotFoundException.
updateLocation_findUnique(r, locationId, data) ==
    /\ Step(MaxSteps)
    /\ ~Pending(r)
    /\ IF locationId \in LocationIds(locations)
       THEN /\ reqs' = [reqs EXCEPT ![r] =
                   [NoRequest EXCEPT !.pc = "update", !.op = "updateLocation",
                                     !.id = locationId, !.data = data]]
            /\ UNCHANGED result
       ELSE /\ result' = Response("updateLocation", "-", NULL, NULL,
                                  "LocationNotFound", locationId)
            /\ UNCHANGED reqs
    /\ UNCHANGED <<locations, attendance, users, nextUserId, now, nextLocId, nextAttId>>

\* The second: location.update throws when the row has been deleted since
\* (record to update not found) or the new name is taken.  findMany() has no
\* orderBy and the database promises no order: the rewritten row may come
\* back at any place of the enumeration.
updateLocation_update(r) ==
    /\ reqs[r].pc = "update"
    /\ LET q == reqs[r]
       IN  IF q.id \notin LocationIds(locations)
           THEN /\ result' = Response("updateLocation", "-", NULL, NULL,
                                      "RecordNotFound", q.id)
                /\ UNCHANGED locations
           ELSE IF "name" \in DOMAIN q.data /\ NameTaken(locations, q.data.name, q.id)
           THEN /\ result' = Response("updateLocation", "-", NULL, NULL,
                                      "UniqueViolation", q.id)
                /\ UNCHANGED locations
           ELSE /\ \E k \in 1..Len(locations) :
                     locations' = InsertAt(RemoveLocation(locations, q.id), k,
                                           ApplyData(LocationById(locations, q.id), q.data))
                /\ result' = Response("updateLocation", "-", NULL, NULL, "ok", q.id)
    /\ reqs' = [reqs EXCEPT ![r] = NoRequest]
    /\ UNCHANGED <<attendance, users, nextUserId, now, nextLocId, nextAttId, steps>>

(***************************************************************************)
(* History deletion.                                                       *)
(***************************************************************************)
\* clearUserHistory awaits user.findUnique and then attendance.deleteMany.
\* This is the first: a missing user ends the call with NotFoundException.
clearUserHistory_findUnique(r, userId) ==
    /\ Step(MaxSteps)
    /\ ~Pending(r)
    /\ IF userId \in UserIds(users)
       THEN /\ reqs' = [reqs EXCEPT ![r] =
                   [NoRequest EXCEPT !.pc = "deleteMany", !.op = "clearUserHistory",
                                     !.userId = userId]]
            /\ UNCHANGED result
       ELSE /\ result' = Response("clearUserHistory", userId, NULL, NULL,
                                  "UserNotFound", NULL)
            /\ UNCHANGED reqs
    /\ UNCHANGED <<locations, attendance, users, nextUserId, now, nextLocId, nextAttId>>

\* Mutant: only the closed records of the user are deleted.
clearUserHistory_deleteMany_ClosedOnly(r) ==
    /\ reqs[r].pc = "deleteMany"
    /\ attendance' = { a \in attendance : a.userId # reqs[r].userId \/ a.clockOut = NULL }
    /\ result' = Response("clearUserHistory", reqs[r].userId, NULL, NULL, "ok", NULL)
    /\ reqs' = [reqs EXCEPT ![r] = NoRequest]
    /\ UNCHANGED <<locations, users, nextUserId, now, nextLocId, nextAttId, steps>>

\* The second: deleteMany({ where: { userId } }) deletes what it finds.
clearUserHistory_deleteMany(r) ==
    /\ reqs[r].pc = "deleteMany"
    /\ attendance' = { a \in attendance : a.userId # reqs[r].userId }
    /\ result' = Response("clearUserHistory", reqs[r].userId, NULL, NULL, "ok", NULL)
    /\ reqs' = [reqs EXCEPT ![r] = NoRequest]
    /\ UNCHANGED <<locations, users, nextUserId, now, nextLocId, nextAttId, steps>>

clearAllHistory ==
    /\ Step(MaxSteps)
    /\ attendance' = {}
    /\ result' = Response("clearAllHistory", "-", NULL, NULL, "ok", NULL)
    /\ UNCHANGED <<locations, users, nextUserId, now, nextLocId, nextAttId, reqs>>

(***************************************************************************)
(* UserService.deleteUser awaits user.findUnique and then user.delete.     *)
(* Attendance.user is declared onDelete: Cascade.                          *)
(***************************************************************************)
deleteUser_findUnique(r, userId) ==
    /\ Step(MaxSteps)
    /\ ~Pending(r)
    /\ IF userId \in UserIds(users)
       THEN /\ reqs' = [reqs EXCEPT ![r] =
                   [NoRequest EXCEPT !.pc = "delete", !.op = "deleteUser",
                                     !.userId = userId]]
            /\ UNCHANGED result
       ELSE /\ result' = Response("deleteUser", userId, NULL, NULL, "UserNotFound", NULL)
            /\ UNCHANGED reqs
    /\ UNCHANGED <<locations, attendance, users, nextUserId, now, nextLocId, nextAttId>>

CascadeOnDelete(att, userId) == { a \in att : a.userId # userId }

deleteUser_delete(r) ==
    /\ reqs[r].pc = "delete"
    /\ LET q == reqs[r]
       IN  IF q.userId \in UserIds(users)
           THEN /\ users' = { u \in users : u.id # q.userId }
                /\ attendance' = CascadeOnDelete(attendance, q.userId)
                /\ result' = Response("deleteUser", q.userId, NULL, NULL, "ok", NULL)
           ELSE /\ result' = Response("deleteUser", q.userId, NULL, NULL,
                                      "RecordNotFound", NULL)
                /\ UNCHANGED <<users, attendance>>
    /\ reqs' = [reqs EXCEPT ![r] = NoRequest]
    /\ UNCHANGED <<locations, now, nextLocId, nextAttId, nextUserId, steps>>

(***************************************************************************)
(* AuthService.register awaits, one after the other,                       *)
(*   register_findUnique              user.findUnique({ where: { email } }) *)
(*                                    (then hashPassword, which reads no    *)
(*                                    table)                                *)
(*   register_create                  user.create: the row gets a fresh id  *)
(*   register_sendCreatedAccountEmail the mail, whose failure the mailer    *)
(*                                    swallows                              *)
(* and then signs the token in authenticateUser.  Every failure is caught  *)
(* and answered with { error: true }; one that comes after user.create     *)
(* leaves the row stored.  A call arrives only while UserIdPool has an id  *)
(* left for it.                                                            *)
(***************************************************************************)
EmailTaken(us, email) == \E u \in us : u.email = email

register_findUnique(r, email) ==
    /\ Step(MaxSteps)
    /\ ~Pending(r)
    /\ nextUserId + Cardinality({ k \in 1..MaxReqs : reqs[k].op = "register"
                                                      /\ reqs[k].pc = "create" })
          <= Len(UserIdPool)
    /\ IF EmailTaken(users, email)
       THEN /\ result' = Response("register", "-", NULL, NULL, "AccountExists", NULL)
            /\ UNCHANGED reqs
       ELSE /\ reqs' = [reqs EXCEPT ![r] =
                   [NoRequest EXCEPT !.pc = "create", !.op = "register",
                                     !.data = [email |-> email]]]
            /\ UNCHANGED result
    /\ UNCHANGED <<locations, attendance, users, nextUserId, now, nextLocId, nextAttId>>

\* user.create fails when a row with the address has been stored in the
\* meantime (email is unique); otherwise the row is stored and the call goes
\* on with the mail.
register_create(r) ==
    /\ reqs[r].pc = "create"
    /\ LET q == reqs[r]
       IN  IF EmailTaken(users, q.data.email)
           THEN /\ result' = Response("register", "-", NULL, NULL, "UniqueViolation", NULL)
                /\ reqs' = [reqs EXCEPT ![r] = NoRequest]
                /\ UNCHANGED <<users, nextUserId>>
           ELSE /\ users' = users \cup {[id |-> UserIdPool[nextUserId],
                                         email |-> q.data.email]}
                /\ nextUserId' = nextUserId + 1
                /\ reqs' = [reqs EXCEPT ![r] =
                       [q EXCEPT !.pc = "sendCreatedAccountEmail",
                                 !.userId = UserIdPool[nextUserId]]]
                /\ UNCHANGED result
    /\ UNCHANGED <<locations, attendance, now, nextLocId, nextAttId, steps>>

\* sendCreatedAccountEmail catches what the mail service throws: sent or
\* not, the call goes on.
register_sendCreatedAccountEmail(r) ==
    /\ reqs[r].pc = "sendCreatedAccountEmail"
    /\ reqs' = [reqs EXCEPT ![r] = [reqs[r] EXCEPT !.pc = "authenticateUser"]]
    /\ UNCHANGED <<locations, attendance, users, nextUserId, now, nextLocId, nextAttId, result,
                   steps>>

\* jwtService.sign gives the token of the new id, or throws (no
\* JWT_SECRET in the environment): { error: true }, the row stays stored.
register_authenticateUser(r) ==
    /\ reqs[r].pc = "authenticateUser"
    /\ \E kind \in {"ok", "TokenError"} :
         result' = Response("register", reqs[r].userId, NULL, NULL, kind, NULL)
    /\ reqs' = [reqs EXCEPT ![r] = NoRequest]
    /\ UNCHANGED <<locations, attendance, users, nextUserId, now, nextLocId, nextAttId, steps>>

(***************************************************************************)
(* Non-overlapping calls: a call arrives only when no call is in flight.   *)
(* Time may pass between two storage calls of a call.                      *)
(***************************************************************************)
Next ==
    \/ Tick
    \/ \E op \in {"clockIn", "clockOut"}, u \in Users, p \in Positions :
          Idle /\ startRequest(1, op, u, p[1], p[2])
    \/ requestFindMany(1)
    \/ requestNewDate(1)
    \/ requestWrite(1)
    \/ \E d \in CreateArgs : Idle /\ createLocation(d)
    \/ \E id \in 1..nextLocId, d \in UpdateData : Idle /\ updateLocation_findUnique(1, id, d)
    \/ updateLocation_update(1)
    \/ \E id \in 1..nextLocId : Idle /\ deleteLocation(id)
    \/ \E u \in AllUserIds : Idle /\ clearUserHistory_findUnique(1, u)
    \/ clearUserHistory_deleteMany(1)
    \/ Idle /\ clearAllHistory

Spec == Init /\ [][Next]_vars

(***************************************************************************)
(* Overlapping calls: up to MaxReqs calls are in flight together, and the  *)
(* one-call deleteLocation runs between any two storage calls of theirs.   *)
(***************************************************************************)
\* The overlapping runs start from a state the service reaches on its own:
\* one location registered and either no record or u1 clocked in.
HQ == [id |-> 1, name |-> "HQ", latitude |-> 1, longitude |-> 1, radius |-> 120000]

ConcInit ==
    /\ locations = <<HQ>>
    /\ nextLocId = 2
    /\ \/ attendance = {} /\ nextAttId = 1
       \/ /\ attendance = {clockInData(1, "u1", 1, 1, 1, 0)}
          /\ nextAttId = 2
    /\ users = UserRows
    /\ nextUserId = Cardinality(Users) + 1
    /\ now = 0
    /\ result = Response("none", "-", NULL, NULL, "none", NULL)
    /\ reqs = [r \in 1..MaxReqs |-> NoRequest]
    /\ steps = 0

ConcNext ==
    \/ steps < ConcSteps /\ Tick
    \/ \E r \in 1..MaxReqs, op \in {"clockIn", "clockOut"}, u \in Users, p \in Positions :
          steps < ConcSteps /\ startRequest(r, op, u, p[1], p[2])
    \/ \E r \in 1..MaxReqs : requestFindMany(r)
    \/ \E r \in 1..MaxReqs : requestNewDate(r)
    \/ \E r \in 1..MaxReqs : requestWrite(r)
    \/ \E r \in 1..MaxReqs, d \in UpdateData :
          steps < ConcSteps /\ updateLocation_findUnique(r, HQ.id, d)
    \/ \E r \in 1..MaxReqs : updateLocation_update(r)
    \/ \E id \in 1..nextLocId : steps < ConcSteps /\ deleteLocation(id)

ConcSpec == ConcInit /\ [][ConcNext]_vars

(***************************************************************************)
(* Vocabulary of the properties.                                           *)
(***************************************************************************)
\* The position lies inside the circle of at least one registered location.
InsideSome(locs, latitude, longitude) ==
    \E i \in 1..Len(locs) :
        calculateDistance(latitude, longitude, locs[i].latitude, locs[i].longitude)
            <= locs[i].radius

\* This step ends a call of the service method op, with the answer result':
\* the only storage call of the call has run, or the last one.
Called(op) ==
    /\ result'.op = op
    /\ now' = now
    /\ \/ steps' = steps + 1 /\ reqs' = reqs
       \/ \E r \in 1..MaxReqs : reqs[r].op = op /\ Pending(r) /\ reqs'[r].pc = "idle"

\* The slot of the call of op that this step ends.
Ending(op) ==
    CHOOSE r \in 1..MaxReqs : reqs[r].op = op /\ Pending(r) /\ reqs'[r].pc = "idle"

\* When a clock event passes its checks it reads the clock.
ReadsClock ==
    \A r \in 1..MaxReqs :
        (reqs[r].pc = "newDate" /\ reqs'[r].pc = "write") => reqs'[r].at = now

ClockErrors == {"AlreadyClockedIn", "OutOfZone", "NoOpenRecord"}

\* C1: in every state reachable by non-overlapping calls of clockIn, clockOut,
\* createLocation, updateLocation, deleteLocation, clearUserHistory and
\* clearAllHistory, every user has at most one record with clockOut = null.
C1_OpenRecordExclusivity ==
    \A u \in Users : Cardinality(OpenRecords(attendance, u)) <= 1

\* C1 witness: a user holds an open record next to a closed one, and a
\* further clockIn of that user has just been refused.
C1_Witness ==
    /\ result.op = "clockIn" /\ result.kind = "AlreadyClockedIn"
    /\ Cardinality(OpenRecords(attendance, result.userId)) = 1
    /\ \E a \in attendance : a.userId = result.userId /\ a.clockOut # NULL

\* C2: when two clockIn requests of one user interleave at their storage
\* calls (findFirst, findMany, create), no reachable state holds two records
\* of that user with clockOut = null.
C2_NoTwoOpenRecordsConcurrently ==
    \A a, b \in attendance :
        (a.userId = b.userId /\ a.clockOut = NULL /\ b.clockOut = NULL) => a.id = b.id

\* C3: a clockIn of a user with no open record at a position inside some
\* geofence succeeds and adds exactly one record: the given userId, clockIn =
\* the time the call read from the clock, clockOut = null, the reported
\* position, locationId = the matched location (the first whose circle
\* contains the position); every other record is unchanged and the user has
\* exactly that open record.
C3_ClockInCreatesRecord ==
    [][ /\ ReadsClock
        /\ ( /\ Called("clockIn")
             /\ OpenRecords(attendance, result'.userId) = {}
             /\ InsideSome(locations, result'.latitude, result'.longitude) )
           => ( /\ result'.kind = "ok"
                /\ \E a \in attendance' :
                     /\ a \notin attendance
                     /\ attendance' = attendance \cup {a}
                     /\ a.id = result'.id
                     /\ \A b \in attendance : b.id # a.id
                     /\ a.userId = result'.userId
                     /\ a.clockIn = reqs[Ending("clockIn")].at
                     /\ a.clockIn <= now
                     /\ a.clockOut = NULL
                     /\ a.latitude = result'.latitude
                     /\ a.longitude = result'.longitude
                     /\ a.locationId \in LocationIds(locations)
                     /\ \E i \in 1..Len(locations) :
                          /\ locations[i].id = a.locationId
                          /\ calculateDistance(a.latitude, a.longitude,
                                 locations[i].latitude, locations[i].longitude)
                               <= locations[i].radius
                          /\ \A j \in 1..(i - 1) :
                               calculateDistance(a.latitude, a.longitude,
                                   locations[j].latitude, locations[j].longitude)
                                 > locations[j].radius
                     /\ OpenRecords(attendance', result'.userId) = {a} ) ]_vars

\* C3 witness: a clockIn has succeeded while records of others exist.
C3_Witness ==
    /\ result.op = "clockIn" /\ result.kind = "ok"
    /\ \E a \in attendance : a.id = result.id /\ a.clockOut = NULL
    /\ \E b \in attendance : b.id # result.id

\* C4: a successful clockOut changes exactly one record, the user's open
\* record: clockOut = the time the call read, latitude/longitude = the clock-out
\* position; its id, userId and clockIn, the number of records and every other
\* record stay as they were, and the user has no open record afterwards.
C4_ClockOutFrame ==
    [][ ( Called("clockOut") /\ result'.kind = "ok" )
        => \E a \in OpenRecords(attendance, result'.userId) :
             \E b \in attendance' :
               /\ attendance' \ {b} = attendance \ {a}
               /\ Cardinality(attendance') = Cardinality(attendance)
               /\ b.id = a.id /\ b.id = result'.id
               /\ b.userId = a.userId
               /\ b.clockIn = a.clockIn
               /\ b.clockOut = reqs[Ending("clockOut")].at
               /\ b.clockOut <= now
               /\ b.latitude = result'.latitude
               /\ b.longitude = result'.longitude
               /\ OpenRecords(attendance', result'.userId) = {} ]_vars

\* C4 witness: a clockOut at <<1, 2>> has succeeded on the first record ever
\* created, later than its clockIn, and the record now carries <<1, 2>>, while
\* another record is still open.
C4_Witness ==
    /\ result.op = "clockOut" /\ result.kind = "ok"
    /\ result.latitude = 1 /\ result.longitude = 2
    /\ \E a \in attendance :
          /\ a.id = result.id /\ a.id = 1
          /\ a.clockOut > a.clockIn
          /\ a.latitude = 1 /\ a.longitude = 2
    /\ \E b \in attendance : b.id # result.id /\ b.clockOut = NULL

\* C5: when clockIn or clockOut ends with AlreadyClockedIn, OutOfZone or
\* NoOpenRecord, the attendance records and the locations are the same before
\* and after the call.
C5_FailuresDoNotMutate ==
    [][ ( (Called("clockIn") \/ Called("clockOut")) /\ result'.kind \in ClockErrors )
        => ( attendance' = attendance /\ locations' = locations ) ]_vars

\* C5 witness: an out-of-zone clockOut of a user whose record is (still) open.
C5_Witness ==
    /\ result.op = "clockOut" /\ result.kind = "OutOfZone"
    /\ OpenRecords(attendance, result.userId) # {}

\* C6: a clockIn at a position inside no registered geofence fails with
\* OutOfZone, whether or not the user has an open record.
C6_OutOfZoneAlways ==
    [][ ( Called("clockIn")
          /\ ~InsideSome(locations, result'.latitude, result'.longitude) )
        => result'.kind = "OutOfZone" ]_vars

\* C6 witness: OutOfZone was answered to a user who has an open record.
C6_Witness ==
    /\ result.op = "clockIn" /\ result.kind = "OutOfZone"
    /\ OpenRecords(attendance, result.userId) # {}

\* C7: a clockIn of a user who already has an open record fails with
\* AlreadyClockedIn for every reported position, also one outside all
\* geofences, and leaves the records unchanged.
C7_AlreadyClockedInFirst ==
    [][ ( Called("clockIn") /\ OpenRecords(attendance, result'.userId) # {} )
        => ( result'.kind = "AlreadyClockedIn" /\ attendance' = attendance ) ]_vars

\* C8: a clockOut of a user with no open record fails with NoOpenRecord for
\* every reported position.
C8_NoOpenRecordAlways ==
    [][ ( Called("clockOut") /\ OpenRecords(attendance, result'.userId) = {} )
        => result'.kind = "NoOpenRecord" ]_vars

\* C9 (I2): with a clock that never goes backwards, every record with a
\* non-null clockOut has clockOut >= clockIn.
C9_ClockOutNotBeforeClockIn ==
    \A a \in attendance : a.clockOut # NULL => a.clockOut >= a.clockIn

\* C9 witness: a closed record whose clockOut is later than its clockIn.
C9_Witness ==
    \E a \in attendance : a.clockOut # NULL /\ a.clockOut > a.clockIn

\* C10: for an idle user, a clockIn inside some geofence succeeds, and the
\* clockOut inside some geofence that follows it immediately (no other call in
\* between; time may pass) succeeds too, closes the very record the clockIn
\* created, and leaves it with clockOut >= clockIn.
C10_ClockInThenClockOut ==
    [][ /\ ( /\ Called("clockIn")
             /\ OpenRecords(attendance, result'.userId) = {}
             /\ InsideSome(locations, result'.latitude, result'.longitude) )
           => result'.kind = "ok"
        /\ ( /\ result.op = "clockIn" /\ result.kind = "ok"
             /\ Called("clockOut")
             /\ result'.userId = result.userId
             /\ InsideSome(locations, result'.latitude, result'.longitude) )
           => ( /\ result'.kind = "ok"
                /\ result'.id = result.id
                /\ \E b \in attendance' :
                     /\ b.id = result.id
                     /\ b.clockOut # NULL
                     /\ b.clockOut >= b.clockIn ) ]_vars

\* C10 witness: the run createLocation, clockIn, tick, clockOut: the clockOut
\* succeeded on the record made two steps before, strictly later.
C10_Witness ==
    /\ steps = 4
    /\ result.op = "clockOut" /\ result.kind = "ok"
    /\ \E b \in attendance : b.id = result.id /\ b.clockOut > b.clockIn

\* C11: in a sequential history of one user's clock events at in-zone
\* positions, successes alternate clockIn, clockOut, clockIn, ...: a clockIn
\* succeeds only from no open record and a clockOut only from one; the clockIn
\* that follows a successful clockIn fails with AlreadyClockedIn, the clockOut
\* after that succeeds, and the clockOut that follows a successful clockOut
\* fails with NoOpenRecord.
C11_StrictAlternation ==
    [][ /\ ( Called("clockIn") /\ result'.kind = "ok" )
           => ( /\ OpenRecords(attendance, result'.userId) = {}
                /\ Cardinality(OpenRecords(attendance', result'.userId)) = 1 )
        /\ ( Called("clockOut") /\ result'.kind = "ok" )
           => ( /\ Cardinality(OpenRecords(attendance, result'.userId)) = 1
                /\ OpenRecords(attendance', result'.userId) = {} )
        /\ ( /\ result.op = "clockIn" /\ result.kind = "ok"
             /\ Called("clockIn") /\ result'.userId = result.userId
             /\ InsideSome(locations, result'.latitude, result'.longitude) )
           => result'.kind = "AlreadyClockedIn"
        /\ ( /\ result.op = "clockIn" /\ result.kind = "AlreadyClockedIn"
             /\ Called("clockOut") /\ result'.userId = result.userId
             /\ InsideSome(locations, result'.latitude, result'.longitude) )
           => result'.kind = "ok"
        /\ ( /\ result.op = "clockOut" /\ result.kind = "ok"
             /\ Called("clockOut") /\ result'.userId = result.userId
             /\ InsideSome(locations, result'.latitude, result'.longitude) )
           => result'.kind = "NoOpenRecord" ]_vars

\* C11 witness: a five-step run in which one location and one record were
\* created (such as createLocation, clockIn, clockIn refused, clockOut,
\* clockOut refused): the last answer is NoOpenRecord at an in-zone position
\* and the user's record is closed.
C11_Witness ==
    /\ steps = 5 /\ now = 0 /\ nextAttId = 2 /\ nextLocId = 2
    /\ result.op = "clockOut" /\ result.kind = "NoOpenRecord"
    /\ InsideSome(locations, result.latitude, result.longitude)
    /\ \E a \in attendance : a.userId = result.userId /\ a.clockOut # NULL

\* C15: deleteLocation of an existing location succeeds, also when records
\* reference it; it removes no record, sets locationId to null on exactly the
\* records that referenced it and leaves every other field of every record
\* unchanged.
C15_DeleteLocationSetsNull ==
    [][ ( Called("deleteLocation") /\ result'.id \in LocationIds(locations) )
        => ( /\ result'.kind = "ok"
             /\ result'.id \notin LocationIds(locations')
             /\ { a.id : a \in attendance' } = { a.id : a \in attendance }
             /\ Cardinality(attendance') = Cardinality(attendance)
             /\ \A a \in attendance : \E b \in attendance' :
                  /\ b.id = a.id
                  /\ b.userId = a.userId
                  /\ b.clockIn = a.clockIn
                  /\ b.clockOut = a.clockOut
                  /\ b.latitude = a.latitude
                  /\ b.longitude = a.longitude
                  /\ b.locationId = IF a.locationId = result'.id
                                    THEN NULL ELSE a.locationId ) ]_vars

\* C15 witness: the only location ever created has just been deleted while an
\* open record referenced it; the record is still there,
\* still open, with a null locationId.
C15_Witness ==
    /\ result.op = "deleteLocation" /\ result.kind = "ok"
    /\ nextLocId = 2
    /\ \E a \in attendance : a.locationId = NULL /\ a.clockOut = NULL

\* C16: updateLocation and deleteLocation called with an id that is not in
\* the registry when the call arrives (never created, or already deleted)
\* fail with LocationNotFound and leave the locations and the attendance
\* records unchanged; updateLocation goes on to its update only for an id
\* that is in the registry.
C16_MissingLocationNotFound ==
    [][ /\ ( /\ Called("updateLocation") \/ Called("deleteLocation")
             /\ steps' = steps + 1
             /\ result'.id \notin LocationIds(locations) )
           => ( /\ result'.kind = "LocationNotFound"
                /\ locations' = locations
                /\ attendance' = attendance )
        /\ \A r \in 1..MaxReqs :
             ( ~Pending(r) /\ reqs'[r].op = "updateLocation" )
                => reqs'[r].id \in LocationIds(locations) ]_vars

\* C16 witness: a deleteLocation of an id that was created earlier and has
\* been deleted since is answered LocationNotFound.
C16_Witness ==
    /\ result.op = "deleteLocation" /\ result.kind = "LocationNotFound"
    /\ result.id < nextLocId

(***************************************************************************)
(* The registry on its own: the administrator's calls with every kind of   *)
(* radius the controller lets through.  The bodies of POST /location and   *)
(* PUT /location/:id are inline TypeScript types with no validation pipe,  *)
(* and column radius is a Float with no constraint, so zero and negative   *)
(* values reach prisma.location.create / update unchanged.                 *)
(***************************************************************************)
AnyRadii == {0 - 50, 0, 100}
RegCreateArgs ==
    { [name |-> n, latitude |-> 1, longitude |-> 1, radius |-> r] : n \in Names, r \in AnyRadii }
RegUpdateData ==
    { [radius |-> r] : r \in AnyRadii } \cup { [name |-> "Lab"] }

RegNext ==
    \/ \E d \in RegCreateArgs : Idle /\ createLocation(d)
    \/ \E id \in 1..nextLocId, d \in RegUpdateData : Idle /\ updateLocation_findUnique(1, id, d)
    \/ updateLocation_update(1)
    \/ \E id \in 1..nextLocId : Idle /\ deleteLocation(id)

RegSpec == Init /\ [][RegNext]_vars

\* C17: every Location of the registry has radius > 0, in every state reached
\* through createLocation and updateLocation with any argument values.
C17_RadiusPositive ==
    \A i \in 1..Len(locations) : locations[i].radius > 0

(***************************************************************************)
(* The geofence on its own.  The run starts from a registry of up to two   *)
(* locations with any centre of the grid and any radius of GeoRadii, the   *)
(* registry the administrator's calls build (location 1 was registered and *)
(* deleted before), and from either no record or an open record of u1      *)
(* made at location 1.  The calls are isValidLocation, applied to every    *)
(* probe, and the two clock events that use it.  DistSpec applies          *)
(* calculateDistance to every pair of points.                              *)
(***************************************************************************)
GeoSteps == 1   \* calls in one run of GeoSpec

Coordinates == {NULL, 0, 1, 2}
GeoCentres == { <<1, 1>>, <<1, 2>>, <<0, 1>> }
GeoRadii == {0, 100, 120000}

GeoLocation(id, name, centre, radius) ==
    [id |-> id, name |-> name, latitude |-> centre[1], longitude |-> centre[2],
     radius |-> radius]

GeoRegistries ==
    {<<>>}
    \cup { <<GeoLocation(2, "HQ", c, r)>> : c \in GeoCentres, r \in GeoRadii }
    \cup { <<GeoLocation(2, "HQ", c[1], r[1]), GeoLocation(3, "Lab", c[2], r[2])>> :
             c \in GeoCentres \X GeoCentres, r \in GeoRadii \X GeoRadii }

GeoInit ==
    /\ locations \in GeoRegistries
    /\ nextLocId = 4
    /\ \/ attendance = {} /\ nextAttId = 1
       \/ /\ attendance = {clockInData(1, "u1", 1, 1, NULL, 0)}
          /\ nextAttId = 2
    /\ users = UserRows
    /\ nextUserId = Cardinality(Users) + 1
    /\ now = 0
    /\ result = Response("none", "-", NULL, NULL, "none", NULL)
    /\ reqs = [r \in 1..MaxReqs |-> NoRequest]
    /\ steps = 0

\* One application of calculateDistance; the answer is kept with its inputs.
callCalculateDistance(lat1, lon1, lat2, lon2) ==
    /\ Step(GeoSteps)
    /\ result' = [op |-> "calculateDistance", lat1 |-> lat1, lon1 |-> lon1,
                  lat2 |-> lat2, lon2 |-> lon2,
                  distance |-> calculateDistance(lat1, lon1, lat2, lon2)]
    /\ UNCHANGED <<locations, attendance, users, nextUserId, now, nextLocId, nextAttId, reqs>>

\* One application of isValidLocation to the registry; the id of the
\* location returned, or NULL, is kept with the probe.
callIsValidLocation(latitude, longitude) ==
    /\ Step(GeoSteps)
    /\ result' = Response("isValidLocation", "-", latitude, longitude, "ok",
                          isValidLocation(locations, latitude, longitude))
    /\ UNCHANGED <<locations, attendance, users, nextUserId, now, nextLocId, nextAttId, reqs>>

GeoNext ==
    \/ \E latitude \in Coordinates, longitude \in Coordinates :
            Idle /\ callIsValidLocation(latitude, longitude)
    \/ \E op \in {"clockIn", "clockOut"}, u \in Users,
          latitude \in Coordinates, longitude \in Coordinates :
            steps < GeoSteps /\ Idle /\ startRequest(1, op, u, latitude, longitude)
    \/ requestFindMany(1)
    \/ requestNewDate(1)
    \/ requestWrite(1)

GeoSpec == GeoInit /\ [][GeoNext]_vars

DistNext ==
    \E lat1 \in Coordinates, lon1 \in Coordinates,
       lat2 \in Coordinates, lon2 \in Coordinates :
         callCalculateDistance(lat1, lon1, lat2, lon2)

DistSpec == Init /\ [][DistNext]_vars

\* The position is within the radius of location l, boundary included.
Inside(l, latitude, longitude) ==
    calculateDistance(latitude, longitude, l.latitude, l.longitude) <= l.radius

\* C12: isValidLocation returns a location if and only if at least one
\* registered location has distance(probe, centre) <= radius, the boundary
\* distance = radius included; the location returned is registered and
\* satisfies that test; it returns null exactly when no registered location
\* satisfies it, in particular when the registry is empty.
C12_GeofenceResolution ==
    result.op = "isValidLocation" =>
        /\ (result.id # NULL) <=> InsideSome(locations, result.latitude, result.longitude)
        /\ result.id # NULL =>
             /\ result.id \in LocationIds(locations)
             /\ Inside(LocationById(locations, result.id), result.latitude, result.longitude)
        /\ locations = <<>> => result.id = NULL

\* C12 witness: the probe is the centre of a location of radius 0 (distance
\* = radius = 0, the boundary) in a registry of two, and that location is
\* the one returned.
C12_Witness ==
    /\ result.op = "isValidLocation"
    /\ Len(locations) = 2
    /\ result.id \in LocationIds(locations)
    /\ LocationById(locations, result.id).radius = 0
    /\ LocationById(locations, result.id).latitude = result.latitude
    /\ LocationById(locations, result.id).longitude = result.longitude

\* C13: a probe whose latitude or longitude is zero or missing matches no
\* geofence, so clockIn and clockOut at such a position answer OutOfZone,
\* whatever locations are registered and whether or not the user has an open
\* record.
C13_FalsyNeverMatches ==
    ( /\ result.op \in {"isValidLocation", "clockIn", "clockOut"}
      /\ (Falsy(result.latitude) \/ Falsy(result.longitude)) )
    => ( /\ result.op = "isValidLocation" => result.id = NULL
         /\ result.op \in {"clockIn", "clockOut"} => result.kind = "OutOfZone" )

\* C13 witness: u1, who has an open record, clocks out at latitude 0 from the
\* very centre of a registered location and is answered OutOfZone.
C13_Witness ==
    /\ result.op = "clockOut" /\ result.kind = "OutOfZone"
    /\ result.latitude = 0
    /\ OpenRecords(attendance, result.userId) # {}
    /\ \E i \in 1..Len(locations) :
         /\ locations[i].latitude = result.latitude
         /\ locations[i].longitude = result.longitude

\* C14 as stated: calculateDistance is symmetric and distance(A, A) = 0 for
\* every point A (both coordinates are numbers), points with a zero latitude
\* or longitude included.
C14_SymmetricZeroOnDiagonal ==
    result.op = "calculateDistance" =>
        /\ result.distance =
             calculateDistance(result.lat2, result.lon2, result.lat1, result.lon1)
        /\ ( /\ result.lat1 = result.lat2 /\ result.lon1 = result.lon2
              /\ result.lat1 # NULL /\ result.lon1 # NULL )
             => result.distance = 0

\* C14 amended: calculateDistance is symmetric for all pairs of points;
\* distance(A, A) = 0 for every point A whose latitude and longitude are both
\* non-zero numbers, and distance(A, A) is Infinity when a coordinate of A is
\* zero or missing.
C14_SymmetricZeroOffAxes ==
    result.op = "calculateDistance" =>
        /\ result.distance =
             calculateDistance(result.lat2, result.lon2, result.lat1, result.lon1)
        /\ (result.lat1 = result.lat2 /\ result.lon1 = result.lon2)
             => result.distance =
                  IF Falsy(result.lat1) \/ Falsy(result.lon1) THEN Infinity ELSE 0

\* C14 witness: the distance from a point of latitude 0 to itself has been
\* computed and is Infinity.
C14_Witness ==
    /\ result.op = "calculateDistance"
    /\ result.lat1 = 0 /\ result.lat2 = 0
    /\ result.lon1 = 1 /\ result.lon2 = 1
    /\ result.distance = Infinity

(***************************************************************************)
(* getWeeklyAttendanceStats.                                               *)
(*                                                                         *)
(* Dates are counted in ticks, DayLen ticks to the calendar day, days      *)
(* starting at the multiples of DayLen:                                    *)
(*   d.setHours(0, 0, 0, 0)        StartOfDay(d)                           *)
(*   d.setHours(23, 59, 59, 999)   EndOfDay(d), the last tick of the day   *)
(*   d.setDate(d.getDate() - k)    AddDays(d, 0 - k)                       *)
(***************************************************************************)
DayLen == 2      \* ticks in one calendar day

StartOfDay(d) == (d \div DayLen) * DayLen
EndOfDay(d) == StartOfDay(d) + DayLen - 1
AddDays(d, k) == d + k * DayLen

\* Mutant: the query has no date filter.
weeklyAttendances_AllTime(att, today) == att

\* prisma.attendance.findMany({ where: { clockIn: { gte: startDate, lte: endDate } } })
weeklyAttendances(att, today) ==
    LET endDate == EndOfDay(today)
        startDate == StartOfDay(AddDays(today, 0 - 6))
    IN  { a \in att : a.clockIn >= startDate /\ a.clockIn <= endDate }

\* weeklyAttendances.filter(...) of iteration i (0..6) of the loop.
dailyAttendances(weekly, today, i) ==
    LET date == AddDays(today, 0 - (6 - i))
        dayStart == StartOfDay(date)
        dayEnd == EndOfDay(date)
    IN  { a \in weekly : a.clockIn >= dayStart /\ a.clockIn <= dayEnd }

\* Mutant: one entry per record instead of one per user.
uniqueUserIds_PerRecord(rows) == { a.id : a \in rows }

\* new Set(rows.map(a => a.userId))
uniqueUserIds(rows) == { a.userId : a \in rows }

\* The set filled by the forEach under  if (attendance.clockOut).
usersWithCompletedAttendance(rows) == { a.userId : a \in { b \in rows : b.clockOut # NULL } }

\* The set filled by the forEach under the else.
usersWithInProgressAttendance(rows) == { a.userId : a \in { b \in rows : b.clockOut = NULL } }

\* Mutant: the size of the set of users with an open record.
inProgressUniqueCount_OpenSet(rows) == Cardinality(usersWithInProgressAttendance(rows))

\* uniqueCount - completedUniqueCount
inProgressUniqueCount(rows) ==
    Cardinality(uniqueUserIds(rows)) - Cardinality(usersWithCompletedAttendance(rows))

\* The element pushed on days by iteration i.
DayData(weekly, today, i) ==
    LET rows == dailyAttendances(weekly, today, i)
    IN  [total |-> Cardinality(uniqueUserIds(rows)),
         completed |-> Cardinality(usersWithCompletedAttendance(rows)),
         inProgress |-> inProgressUniqueCount(rows)]

\* The value returned (the chart repeats the totals and is left out), with
\* the date the call read from the clock.
WeeklyStats(att, today) ==
    LET weekly == weeklyAttendances(att, today)
        totalUniqueUsers == Cardinality(uniqueUserIds(weekly))
        completedUniqueUsersCount == Cardinality(usersWithCompletedAttendance(weekly))
    IN  [op |-> "getWeeklyAttendanceStats",
         kind |-> "ok",
         today |-> today,
         totalWeek |-> totalUniqueUsers,
         summary |-> [completed |-> completedUniqueUsersCount,
                      inProgress |-> totalUniqueUsers - completedUniqueUsersCount],
         dailyData |-> [k \in 1..7 |-> DayData(weekly, today, k - 1)]]

\* catch (error) { throw new InternalServerErrorException(...) }: the answer
\* of a call whose storage call failed.
StatsFailure(op, today) == [op |-> op, kind |-> "InternalServerError", today |-> today]

\* The call reads the clock (const today = new Date()) when it arrives and
\* awaits attendance.findMany afterwards.
getWeeklyAttendanceStats_newDate(r) ==
    /\ Step(MaxSteps)
    /\ ~Pending(r)
    /\ reqs' = [reqs EXCEPT ![r] =
           [NoRequest EXCEPT !.pc = "query", !.op = "getWeeklyAttendanceStats",
                             !.at = now]]
    /\ UNCHANGED <<locations, attendance, users, nextUserId, now, nextLocId, nextAttId, result>>

getWeeklyAttendanceStats_findMany(r) ==
    /\ reqs[r].pc = "query" /\ reqs[r].op = "getWeeklyAttendanceStats"
    /\ \/ result' = WeeklyStats(attendance, reqs[r].at)
       \/ result' = StatsFailure("getWeeklyAttendanceStats", reqs[r].at)
    /\ reqs' = [reqs EXCEPT ![r] = NoRequest]
    /\ UNCHANGED <<locations, attendance, users, nextUserId, now, nextLocId, nextAttId, steps>>

(***************************************************************************)
(* getTodayAttendanceCount.                                                *)
(***************************************************************************)
\* Mutant: the records still open are counted whatever their day.
todayAttendances_OpenAnyDay(att, today) ==
    { a \in att : \/ a.clockOut = NULL
                  \/ (a.clockIn >= StartOfDay(today) /\ a.clockIn <= EndOfDay(today)) }

\* prisma.attendance.findMany({ where: { clockIn: { gte: startOfDay, lte: endOfDay } } })
todayAttendances(att, today) ==
    LET startOfDay == StartOfDay(today)
        endOfDay == EndOfDay(today)
    IN  { a \in att : a.clockIn >= startOfDay /\ a.clockIn <= endOfDay }

\* The value returned (labels left out), with the date read from the clock.
TodayCount(att, today) ==
    LET totalCount == Cardinality(todayAttendances(att, today))
        completedCount ==
            Cardinality({ a \in todayAttendances(att, today) : a.clockOut # NULL })
    IN  [op |-> "getTodayAttendanceCount",
         kind |-> "ok",
         today |-> today,
         total |-> totalCount,
         completed |-> completedCount,
         inProgress |-> totalCount - completedCount]

\* The call reads the clock (const today = new Date()) when it arrives and
\* awaits attendance.findMany afterwards.
getTodayAttendanceCount_newDate(r) ==
    /\ Step(MaxSteps)
    /\ ~Pending(r)
    /\ reqs' = [reqs EXCEPT ![r] =
           [NoRequest EXCEPT !.pc = "query", !.op = "getTodayAttendanceCount",
                             !.at = now]]
    /\ UNCHANGED <<locations, attendance, users, nextUserId, now, nextLocId, nextAttId, result>>

getTodayAttendanceCount_findMany(r) ==
    /\ reqs[r].pc = "query" /\ reqs[r].op = "getTodayAttendanceCount"
    /\ \/ result' = TodayCount(attendance, reqs[r].at)
       \/ result' = StatsFailure("getTodayAttendanceCount", reqs[r].at)
    /\ reqs' = [reqs EXCEPT ![r] = NoRequest]
    /\ UNCHANGED <<locations, attendance, users, nextUserId, now, nextLocId, nextAttId, steps>>

(***************************************************************************)
(* The statistics are read while the users clock in and out at location    *)
(* HQ and time passes, by one tick, by one day or by a whole week, so that *)
(* records fall on the same day, on different days of the window and       *)
(* before the window.                                                      *)
(* A statistics call (slot 2) overlaps the clock events (slot 1): time may  *)
(* pass and a record may be made or closed between its reading of the      *)
(* clock and its query.                                                    *)
(***************************************************************************)
PassDays(k) ==
    /\ Step(MaxSteps)
    /\ now' = AddDays(now, k)
    /\ UNCHANGED <<locations, attendance, users, nextUserId, nextLocId, nextAttId, result, reqs>>

\* The runs start with location HQ registered and either no record or u2
\* clocked in there.
StatsInit ==
    /\ locations = <<HQ>>
    /\ nextLocId = 2
    /\ \/ attendance = {} /\ nextAttId = 1
       \/ /\ attendance = {clockInData(1, "u2", HQ.latitude, HQ.longitude, HQ.id, 0)}
          /\ nextAttId = 2
    /\ users = UserRows
    /\ nextUserId = Cardinality(Users) + 1
    /\ now = 0
    /\ result = Response("none", "-", NULL, NULL, "none", NULL)
    /\ reqs = [r \in 1..MaxReqs |-> NoRequest]
    /\ steps = 0

StatsNext ==
    \/ Tick
    \/ \E k \in {1, 7} : PassDays(k)
    \/ \E op \in {"clockIn", "clockOut"}, u \in Users :
          startRequest(1, op, u, HQ.latitude, HQ.longitude)
    \/ requestFindMany(1)
    \/ requestNewDate(1)
    \/ requestWrite(1)
    \/ getWeeklyAttendanceStats_newDate(2)
    \/ getWeeklyAttendanceStats_findMany(2)
    \/ getTodayAttendanceCount_newDate(2)
    \/ getTodayAttendanceCount_findMany(2)

StatsSpec == StatsInit /\ [][StatsNext]_vars

\* The calendar day of a date, and day k (1..7) of the week ending on the
\* day the statistics were computed.  No record is made or closed between
\* that call and the state in which result still holds its answer.
DayIndex(d) == d \div DayLen
WeekDay(k) == DayIndex(result.today) - 7 + k
RecordsOfDay(k) == { a \in attendance : DayIndex(a.clockIn) = WeekDay(k) }
UsersOfDay(k) == { u \in AllUserIds : \E a \in RecordsOfDay(k) : a.userId = u }
RecordsOf(u, k) == { a \in RecordsOfDay(k) : a.userId = u }

\* C18: for each of the 7 calendar days ending today, the day's total is the
\* number of distinct users with at least one record whose clockIn falls in
\* that day (a user with several records that day counts once), and it
\* never exceeds the number of records of that day.
C18_DailyTotalDistinctUsers ==
    ( result.op = "getWeeklyAttendanceStats" /\ result.kind = "ok" ) =>
        /\ DOMAIN result.dailyData = 1..7
        /\ \A k \in 1..7 :
             /\ result.dailyData[k].total = Cardinality(UsersOfDay(k))
             /\ result.dailyData[k].total <= Cardinality(RecordsOfDay(k))

\* C18 witness: the statistics were computed with a day on which one user
\* has two records and nobody else has any; that day's total is 1.
C18_Witness ==
    /\ result.op = "getWeeklyAttendanceStats" /\ result.kind = "ok"
    /\ \E k \in 1..7 :
         /\ Cardinality(RecordsOfDay(k)) = 2
         /\ Cardinality(UsersOfDay(k)) = 1
         /\ result.dailyData[k].total = 1

\* C19: for each day, completed is the number of distinct users with at
\* least one record of that day whose clockOut is set, inProgress is the
\* number of distinct users all of whose records of that day are open (a
\* user with a closed and an open record that day counts under completed
\* only), and completed + inProgress = total.
C19_DailyCompletedInProgress ==
    ( result.op = "getWeeklyAttendanceStats" /\ result.kind = "ok" ) =>
        \A k \in 1..7 :
            /\ result.dailyData[k].completed =
                 Cardinality({ u \in UsersOfDay(k) :
                                 \E a \in RecordsOf(u, k) : a.clockOut # NULL })
            /\ result.dailyData[k].inProgress =
                 Cardinality({ u \in UsersOfDay(k) :
                                 \A a \in RecordsOf(u, k) : a.clockOut = NULL })
            /\ result.dailyData[k].completed + result.dailyData[k].inProgress
                 = result.dailyData[k].total

\* C19 witness: on one day a user has a closed and an open record and the
\* other user has an open record only; the day reads completed 1,
\* inProgress 1.
C19_Witness ==
    /\ result.op = "getWeeklyAttendanceStats" /\ result.kind = "ok"
    /\ \E k \in 1..7 :
         /\ \E u \in UsersOfDay(k) :
              /\ \E a \in RecordsOf(u, k) : a.clockOut # NULL
              /\ \E a \in RecordsOf(u, k) : a.clockOut = NULL
         /\ result.dailyData[k].completed = 1
         /\ result.dailyData[k].inProgress = 1

\* The users with a record anywhere in the window of 7 days ending today.
UsersOfWeek == UNION { UsersOfDay(k) : k \in 1..7 }

SumOfDailyTotals ==
    result.dailyData[1].total + result.dailyData[2].total + result.dailyData[3].total
    + result.dailyData[4].total + result.dailyData[5].total + result.dailyData[6].total
    + result.dailyData[7].total

\* C20: totalWeek is the number of distinct users with a record anywhere in
\* the 7-day window (a user present on several days counts once, it is not
\* the sum of the daily totals); summary.completed + summary.inProgress =
\* totalWeek; totalWeek is at least every daily total and at most their sum.
C20_WeekTotalDistinctUsers ==
    ( result.op = "getWeeklyAttendanceStats" /\ result.kind = "ok" ) =>
        /\ result.totalWeek = Cardinality(UsersOfWeek)
        /\ result.summary.completed + result.summary.inProgress = result.totalWeek
        /\ \A k \in 1..7 : result.dailyData[k].total <= result.totalWeek
        /\ result.totalWeek <= SumOfDailyTotals

\* C20 witness: one user has records on two days of the window: totalWeek
\* is 1 while the daily totals add up to 2.
C20_Witness ==
    /\ result.op = "getWeeklyAttendanceStats" /\ result.kind = "ok"
    /\ result.totalWeek = 1
    /\ SumOfDailyTotals = 2
    /\ \E j, k \in 1..7 : j # k /\ UsersOfDay(j) = UsersOfDay(k) /\ UsersOfDay(j) # {}

(***************************************************************************)
(* The administrator clears histories and deletes users, and accounts are  *)
(* registered, while the users clock in and out at location HQ.  Whoever   *)
(* has had an account holds a token with its id and can call.  The clock   *)
(* events and clearUserHistory follow one another (slot 1); deleteUser and *)
(* register calls overlap them and one another.                            *)
(***************************************************************************)
IssuedUserIds == { UserIdPool[i] : i \in 1..(nextUserId - 1) }

UserNext ==
    \/ \E op \in {"clockIn", "clockOut"}, u \in IssuedUserIds :
          startRequest(1, op, u, HQ.latitude, HQ.longitude)
    \/ requestFindMany(1)
    \/ requestNewDate(1)
    \/ requestWrite(1)
    \/ \E u \in IssuedUserIds \cup {"ghost"} : clearUserHistory_findUnique(1, u)
    \/ clearUserHistory_deleteMany(1)
    \/ \E r \in 1..MaxReqs, u \in IssuedUserIds : deleteUser_findUnique(r, u)
    \/ \E r \in 1..MaxReqs : deleteUser_delete(r)
    \/ \E r \in 1..MaxReqs, e \in RegisterEmails : register_findUnique(r, e)
    \/ \E r \in 1..MaxReqs : register_create(r)
    \/ \E r \in 1..MaxReqs : register_sendCreatedAccountEmail(r)
    \/ \E r \in 1..MaxReqs : register_authenticateUser(r)

UserSpec == StatsInit /\ [][UserNext]_vars

\* C30: clearUserHistory(u) is refused with a not-found error exactly when u
\* has no User row, and then removes nothing; for an existing user it
\* removes every record of u, open or closed, and no record of any other
\* user, so that u has no open record afterwards and the in-zone clockIn of
\* u that follows (u still being a user) succeeds.
C30_ClearUserHistory ==
    [][ /\ \A r \in 1..MaxReqs :
             ( ~Pending(r) /\ reqs'[r].op = "clearUserHistory" )
                => reqs'[r].userId \in UserIds(users)
        /\ ( Called("clearUserHistory") /\ steps' = steps + 1 )
           => ( /\ result'.userId \notin UserIds(users)
                /\ result'.kind = "UserNotFound"
                /\ attendance' = attendance )
        /\ ( Called("clearUserHistory") /\ steps' = steps )
           => ( /\ result'.kind = "ok"
                /\ attendance' = { a \in attendance : a.userId # result'.userId }
                /\ OpenRecords(attendance', result'.userId) = {} )
        /\ ( /\ result.op = "clearUserHistory" /\ result.kind = "ok"
             /\ Called("clockIn") /\ result'.userId = result.userId
             /\ result'.userId \in UserIds(users)
             /\ InsideSome(locations, result'.latitude, result'.longitude) )
           => result'.kind = "ok" ]_vars

\* C30 witness: the history of a user has just been cleared, which removed
\* the first record ever created, while the other user's record, which is
\* open, is still stored.
C30_Witness ==
    /\ result.op = "clearUserHistory" /\ result.kind = "ok"
    /\ nextAttId = 3
    /\ Cardinality(attendance) = 1
    /\ \E a \in attendance : a.id = 2 /\ a.userId # result.userId /\ a.clockOut = NULL

\* C25: invariant I3 at a clock-out: after a successful clockOut the record
\* that was closed, when its locationId is not null, stores coordinates that
\* lie inside the circle of the location its locationId names, as that
\* location is registered at that moment.
C25_RecordInsideItsLocation ==
    [][ ( Called("clockOut") /\ result'.kind = "ok" )
        => LET b == Row(attendance', result'.id)
           IN  b.locationId # NULL
                 => /\ b.locationId \in LocationIds(locations')
                    /\ Inside(LocationById(locations', b.locationId),
                              b.latitude, b.longitude) ]_vars

\* C26: after a successful clockOut the record's locationId is the id of the
\* geofence matched by the clock-out position and the location name returned
\* is that geofence's name as registered, also when the clock-in was made in
\* another geofence or that geofence was deleted in between.
C26_ClockOutLocationOfLastEvent ==
    [][ ( Called("clockOut") /\ result'.kind = "ok" )
        => LET b == Row(attendance', result'.id)
               validLocation == isValidLocation(locations, result'.latitude,
                                                result'.longitude)
           IN  /\ b.locationId = validLocation
               /\ LocationName(locations', b.locationId)
                    = LocationById(locations, validLocation).name ]_vars

\* The first location, in the registry's enumeration order, whose circle
\* contains the position.
FirstInside(locs, latitude, longitude) ==
    locs[CHOOSE i \in 1..Len(locs) :
           /\ Inside(locs[i], latitude, longitude)
           /\ \A j \in 1..(i - 1) : ~Inside(locs[j], latitude, longitude)]

\* C27: when the probe lies inside one or several geofences, isValidLocation
\* returns the first matching location in the registry's enumeration order,
\* whichever matching location is nearest, and the locationId of the record
\* a clockIn creates is that first match.
C27_FirstMatchWins ==
    /\ ( /\ result.op = "isValidLocation"
         /\ InsideSome(locations, result.latitude, result.longitude) )
       => result.id = FirstInside(locations, result.latitude, result.longitude).id
    /\ ( result.op = "clockIn" /\ result.kind = "ok" )
       => Row(attendance, result.id).locationId
            = FirstInside(locations, result.latitude, result.longitude).id

\* C27 witness: a clockIn has succeeded at a probe inside both geofences of
\* the registry, the second of which is strictly nearer than the first; the
\* record carries the id of the first.
C27_Witness ==
    /\ result.op = "clockIn" /\ result.kind = "ok"
    /\ Len(locations) = 2
    /\ Inside(locations[1], result.latitude, result.longitude)
    /\ Inside(locations[2], result.latitude, result.longitude)
    /\ calculateDistance(result.latitude, result.longitude,
                         locations[2].latitude, locations[2].longitude)
         < calculateDistance(result.latitude, result.longitude,
                             locations[1].latitude, locations[1].longitude)
    /\ Row(attendance, result.id).locationId = locations[1].id

\* C28: closed records are immutable under clock events: once a record's
\* clockOut is set, no later or overlapping clockIn or clockOut changes its
\* clockOut or its coordinates (so of two overlapping clockOut requests of
\* one user only one writes the record).
C28_ClosedRecordsImmutable ==
    [][ \A a \in attendance : \A b \in attendance' :
          ( a.clockOut # NULL /\ b.id = a.id )
             => ( /\ b.clockOut = a.clockOut
                  /\ b.latitude = a.latitude
                  /\ b.longitude = a.longitude ) ]_vars

\* A stored record's locationId, when not null, names a registered location.
ReferencesExist(att, locs) ==
    \A a \in att : a.locationId # NULL => a.locationId \in LocationIds(locs)

\* C29: whatever way clockIn (findMany of the locations, then create) and
\* deleteLocation interleave, every stored record's non-null locationId names
\* a location of the registry, and a clockIn whose matched location was
\* deleted between the geofence match and the create stores no record.
C29_ReferentialIntegrity ==
    [][ /\ ReferencesExist(attendance, locations)
        /\ ReferencesExist(attendance', locations')
        /\ \A r \in 1..MaxReqs :
             ( /\ reqs[r].pc = "write" /\ reqs[r].op = "clockIn"
               /\ reqs'[r].pc = "idle"
               /\ reqs[r].validLocation \notin LocationIds(locations) )
             => ( /\ result'.op = "clockIn"
                  /\ result'.kind # "ok"
                  /\ attendance' = attendance ) ]_vars

\* C29 witness: a clockIn request matched a location that was deleted before
\* its create ran; the create was refused.
C29_Witness ==
    /\ result.op = "clockIn" /\ result.kind = "ForeignKeyViolation"
    /\ Inside(HQ, result.latitude, result.longitude)
    /\ locations = <<>>
    /\ \A a \in attendance : a.userId # result.userId

\* The records whose clockIn falls in the calendar day on which the count
\* was computed.
RecordsOfToday == { a \in attendance : DayIndex(a.clockIn) = DayIndex(result.today) }

\* C21: getTodayAttendanceCount returns total = the number of records (not
\* of users) whose clockIn falls in the current calendar day, completed =
\* those of them with clockOut set, inProgress = those with clockOut null,
\* total = completed + inProgress; an open record whose clockIn is on an
\* earlier day is counted in none of the three.
C21_TodayCountsRecords ==
    ( result.op = "getTodayAttendanceCount" /\ result.kind = "ok" ) =>
        /\ result.total = Cardinality(RecordsOfToday)
        /\ result.completed = Cardinality({ a \in RecordsOfToday : a.clockOut # NULL })
        /\ result.inProgress = Cardinality({ a \in RecordsOfToday : a.clockOut = NULL })
        /\ result.total = result.completed + result.inProgress

\* C21 witness: the count was computed on a day on which one user has a
\* closed and an open record, while another user's record of an earlier day
\* is still open: total 2, completed 1, inProgress 1.
C21_Witness ==
    /\ result.op = "getTodayAttendanceCount" /\ result.kind = "ok"
    /\ result.total = 2 /\ result.completed = 1 /\ result.inProgress = 1
    /\ Cardinality(uniqueUserIds(RecordsOfToday)) = 1
    /\ \E a \in attendance :
         a.clockOut = NULL /\ DayIndex(a.clockIn) < DayIndex(result.today)

(***************************************************************************)
(* getLastAttendance.                                                      *)
(*                                                                         *)
(* findFirst({ where: { userId }, orderBy: { clockIn: 'desc' } }) returns  *)
(* a record of the user with the greatest clockIn.  The query gives no     *)
(* second sort key, so among records with the same clockIn the database    *)
(* may return any one.                                                     *)
(***************************************************************************)
\* Mutant: the order is ascending, the oldest record comes first.
findFirstByClockInDesc_Asc(att, userId) ==
    LET mine == { a \in att : a.userId = userId }
    IN  IF mine = {} THEN {NULL}
        ELSE { a.id : a \in { b \in mine : \A c \in mine : b.clockIn <= c.clockIn } }

\* The ids the query may return, or NULL when the user has no record.
findFirstByClockInDesc(att, userId) ==
    LET mine == { a \in att : a.userId = userId }
    IN  IF mine = {} THEN {NULL}
        ELSE { a.id : a \in { b \in mine : \A c \in mine : b.clockIn >= c.clockIn } }

getLastAttendance(userId) ==
    /\ Step(MaxSteps)
    /\ \E lastAttendance \in findFirstByClockInDesc(attendance, userId) :
         result' = IF lastAttendance = NULL
                   THEN Response("getLastAttendance", userId, NULL, NULL,
                                 "NoRecordFound", NULL)
                   ELSE Response("getLastAttendance", userId,
                                 Row(attendance, lastAttendance).latitude,
                                 Row(attendance, lastAttendance).longitude,
                                 "ok", lastAttendance)
    /\ UNCHANGED <<locations, attendance, users, nextUserId, now, nextLocId, nextAttId, reqs>>

\* The users clock in and out at location HQ while time passes or not, and
\* the last record of a user, or of an id without records, is read.
LastNext ==
    \/ Tick
    \/ \E op \in {"clockIn", "clockOut"}, u \in Users :
          Idle /\ startRequest(1, op, u, HQ.latitude, HQ.longitude)
    \/ requestFindMany(1)
    \/ requestNewDate(1)
    \/ requestWrite(1)
    \/ \E u \in AllUserIds : Idle /\ clearUserHistory_findUnique(1, u)
    \/ clearUserHistory_deleteMany(1)
    \/ \E u \in AllUserIds : Idle /\ getLastAttendance(u)

LastSpec == StatsInit /\ [][LastNext]_vars

RecordsOfUser(u) == { a \in attendance : a.userId = u }

\* The answer of getLastAttendance is about the user asked for, is
\* NoRecordFound exactly when that user has no record, and otherwise is a
\* record of that user with the greatest clockIn.
LastIsLatest ==
    /\ (result.kind = "NoRecordFound") <=> (RecordsOfUser(result.userId) = {})
    /\ result.kind = "ok" =>
         /\ Row(attendance, result.id).userId = result.userId
         /\ \A a \in RecordsOfUser(result.userId) :
              a.clockIn <= Row(attendance, result.id).clockIn

\* C24 as stated: getLastAttendance(userId) returns the record of that user
\* with the greatest clockIn, never a record of another user, fails with
\* NoRecordFound exactly when the user has no record, and whenever the user
\* has an open record (at most one, I1) the record returned is that one.
C24_LastIsOpenRecord ==
    result.op = "getLastAttendance" =>
        /\ LastIsLatest
        /\ Cardinality(OpenRecords(attendance, result.userId)) = 1
             => result.id \in { a.id : a \in OpenRecords(attendance, result.userId) }

\* C24 amended: as above, but the record returned is the user's open record
\* whenever the user has one whose clockIn is later than the clockIn of
\* every other record of the user; when a closed record has the same
\* clockIn as the open one, either of the two may be returned.
C24_LastIsOpenRecordIfLater ==
    result.op = "getLastAttendance" =>
        /\ LastIsLatest
        /\ \A o \in OpenRecords(attendance, result.userId) :
             ( \A a \in RecordsOfUser(result.userId) : a.id # o.id => a.clockIn < o.clockIn )
                => result.id = o.id

\* C24 witness: the user asked for has a closed record and a later open
\* record, the other user has a record too, and the open record is the one
\* returned.
C24_Witness ==
    /\ result.op = "getLastAttendance" /\ result.kind = "ok"
    /\ Row(attendance, result.id) \in OpenRecords(attendance, result.userId)
    /\ \E a \in RecordsOfUser(result.userId) :
         a.clockOut # NULL /\ a.clockIn < Row(attendance, result.id).clockIn
    /\ \E a \in attendance : a.userId # result.userId

(***************************************************************************)
(* getUserAttendance.                                                      *)
(*                                                                         *)
(* The date argument is a string, written here as the sequence of its      *)
(* characters, or is absent.  Instants are ticks since 1970-01-01T00:00Z,  *)
(* DayLen ticks to the day.  The service's time zone is tz ticks east of   *)
(* UTC (west when negative): local time = instant + tz.                    *)
(***************************************************************************)
Digits == {"0", "1", "2", "3", "4", "5", "6", "7", "8", "9"}

DigitValue(c) ==
    CASE c = "0" -> 0 [] c = "1" -> 1 [] c = "2" -> 2 [] c = "3" -> 3 [] c = "4" -> 4
      [] c = "5" -> 5 [] c = "6" -> 6 [] c = "7" -> 7 [] c = "8" -> 8 [] c = "9" -> 9

\* /^\d{4}-\d{2}-\d{2}$/.test(date)
MatchesDatePattern(date) ==
    /\ Len(date) = 10
    /\ date[5] = "-" /\ date[8] = "-"
    /\ \A i \in {1, 2, 3, 4, 6, 7, 9, 10} : date[i] \in Digits

YearOf(date) ==
    1000 * DigitValue(date[1]) + 100 * DigitValue(date[2])
    + 10 * DigitValue(date[3]) + DigitValue(date[4])
MonthOf(date) == 10 * DigitValue(date[6]) + DigitValue(date[7])
DayOfMonthOf(date) == 10 * DigitValue(date[9]) + DigitValue(date[10])

IsLeapYear(y) == (y % 4 = 0 /\ y % 100 # 0) \/ y % 400 = 0

DaysInMonth(y, m) ==
    CASE m \in {1, 3, 5, 7, 8, 10, 12} -> 31
      [] m \in {4, 6, 9, 11} -> 30
      [] m = 2 -> IF IsLeapYear(y) THEN 29 ELSE 28

\* Days from 1970-01-01 to the first day of year y (ECMAScript DayFromYear).
DayFromYear(y) ==
    365 * (y - 1970) + ((y - 1969) \div 4) - ((y - 1901) \div 100) + ((y - 1601) \div 400)

RECURSIVE DaysBeforeMonth(_, _)
DaysBeforeMonth(y, m) ==
    IF m = 1 THEN 0 ELSE DaysBeforeMonth(y, m - 1) + DaysInMonth(y, m - 1)

\* ECMAScript MakeDay: a day of the month beyond the month's length runs on
\* into the following month.
MakeDay(y, m, d) == DayFromYear(y) + DaysBeforeMonth(y, m) + d - 1

\* new Date(date + 'T00:00:00.000Z').getTime() for a string that matches the
\* pattern: the values the parse can give, NULL standing for NaN.  A month
\* outside 01..12 or a day outside 01..31 gives NaN.  For a day of 29..31
\* beyond the length of the month the result depends on the JavaScript
\* engine: Node's parser (V8) hands the triple to MakeDay, an engine that
\* follows the ECMAScript date-string format strictly gives NaN.
ParseUtcMidnight(date) ==
    LET y == YearOf(date)
        m == MonthOf(date)
        d == DayOfMonthOf(date)
    IN  IF m \notin 1..12 \/ d \notin 1..31 THEN {NULL}
        ELSE IF d <= DaysInMonth(y, m) THEN { MakeDay(y, m, d) * DayLen }
        ELSE { MakeDay(y, m, d) * DayLen, NULL }

\* d.setHours(0, 0, 0, 0) and d.setHours(23, 59, 59, 999) in time zone tz.
LocalStartOfDay(d, tz) == StartOfDay(d + tz) - tz
LocalEndOfDay(d, tz) == EndOfDay(d + tz) - tz

\* filter.clockIn = { gte: startOfDay, lte: endOfDay }
DateFilter(parsedDate, tz) ==
    [gte |-> LocalStartOfDay(parsedDate, tz), lte |-> LocalEndOfDay(parsedDate, tz)]

\* users.map(...): for every user the ids of the user's records that pass
\* the filter (the order, clockIn descending, is not kept).
AttendancesByUser(att, rows) ==
    [u \in UserIds(users) |-> { a.id : a \in { b \in att : b.userId = u /\ b.id \in rows } }]

HistoryResponse(given, date, tz, kind, att, rows) ==
    [op |-> "getUserAttendance", given |-> given, date |-> date, tz |-> tz,
     kind |-> kind, attendances |-> AttendancesByUser(att, rows)]

\* given is FALSE when the call has no date argument (date is then <<>>).
getUserAttendance(given, date, tz) ==
    /\ Step(MaxSteps)
    /\ IF ~given \/ date = <<>>
       THEN result' = HistoryResponse(given, date, tz, "ok", attendance,
                                      { a.id : a \in attendance })
       ELSE IF ~MatchesDatePattern(date)
       THEN result' = HistoryResponse(given, date, tz, "InvalidDateFormat", attendance, {})
       ELSE \E parsedDate \in ParseUtcMidnight(date) :
              IF parsedDate = NULL
              THEN result' = HistoryResponse(given, date, tz, "InvalidDate", attendance, {})
              ELSE LET filter == DateFilter(parsedDate, tz)
                   IN  result' = HistoryResponse(given, date, tz, "ok", attendance,
                         { a.id : a \in { b \in attendance :
                                            b.clockIn >= filter.gte /\ b.clockIn <= filter.lte } })
    /\ UNCHANGED <<locations, attendance, users, nextUserId, now, nextLocId, nextAttId, reqs>>

\* Date arguments: two days of the leap year's February, 2024-02-30 and
\* 2024-13-40, which have the shape of a date and name none, two strings of
\* another shape, and the empty string.
HistDates ==
    { <<"2", "0", "2", "4", "-", "0", "2", "-", "2", "8">>,
      <<"2", "0", "2", "4", "-", "0", "2", "-", "2", "9">>,
      <<"2", "0", "2", "4", "-", "0", "2", "-", "3", "0">>,
      <<"2", "0", "2", "4", "-", "1", "3", "-", "4", "0">>,
      <<"2", "0", "2", "4", "-", "2", "-", "2", "9">>,
      <<"2", "9", "/", "0", "2", "/", "2", "0", "2", "4">>,
      <<>> }

\* Time zones of the service: half a day west of UTC, UTC, half a day east.
TimeZones == { 0 - (DayLen \div 2), 0, DayLen \div 2 }

\* The service is started on 2024-02-28 at 00:00 UTC with location HQ
\* registered; the users clock in and out there while time passes, and the
\* history is read with and without a date.
HistInit ==
    /\ locations = <<HQ>>
    /\ nextLocId = 2
    /\ attendance = {}
    /\ nextAttId = 1
    /\ users = UserRows
    /\ nextUserId = Cardinality(Users) + 1
    /\ now = MakeDay(2024, 2, 28) * DayLen
    /\ result = Response("none", "-", NULL, NULL, "none", NULL)
    /\ reqs = [r \in 1..MaxReqs |-> NoRequest]
    /\ steps = 0

HistNext ==
    \/ Tick
    \/ \E op \in {"clockIn", "clockOut"}, u \in Users :
          Idle /\ startRequest(1, op, u, HQ.latitude, HQ.longitude)
    \/ requestFindMany(1)
    \/ requestNewDate(1)
    \/ requestWrite(1)
    \/ \E date \in HistDates, tz \in TimeZones : Idle /\ getUserAttendance(TRUE, date, tz)
    \/ \E tz \in TimeZones : Idle /\ getUserAttendance(FALSE, <<>>, tz)

HistSpec == HistInit /\ [][HistNext]_vars

\* The string is a YYYY-MM-DD calendar date: the shape, a month of the year
\* and a day of that month.
RealCalendarDate(date) ==
    /\ MatchesDatePattern(date)
    /\ MonthOf(date) \in 1..12
    /\ DayOfMonthOf(date) \in 1..DaysInMonth(YearOf(date), MonthOf(date))

\* The calendar day, counted from 1970-01-01, that instant t belongs to in
\* time zone tz.
LocalDayOf(t, tz) == (t + tz) \div DayLen

\* C22: getUserAttendance(date) with a well-formed date D returns, for each
\* user, exactly the records whose clockIn lies in day D of the service's
\* local calendar, for every time-zone offset of the service; with no date
\* it returns every record of every user.
C22_HistoryOfLocalDay ==
    result.op = "getUserAttendance" =>
        /\ ( result.given /\ RealCalendarDate(result.date) )
           => /\ result.kind = "ok"
              /\ \A u \in UserIds(users) :
                   result.attendances[u] =
                     { a.id : a \in { b \in attendance :
                         /\ b.userId = u
                         /\ LocalDayOf(b.clockIn, result.tz)
                              = MakeDay(YearOf(result.date), MonthOf(result.date),
                                        DayOfMonthOf(result.date)) } }
        /\ ~result.given
           => /\ result.kind = "ok"
              /\ \A u \in UserIds(users) :
                   result.attendances[u] = { a.id : a \in { b \in attendance : b.userId = u } }

\* C23: getUserAttendance(date) fails with InvalidDateFormat for every
\* non-empty date string that is not a YYYY-MM-DD calendar date, whether
\* the string has another shape or has the shape and names no real date.
C23_InvalidDateRejected ==
    ( /\ result.op = "getUserAttendance"
      /\ result.given /\ result.date # <<>>
      /\ ~RealCalendarDate(result.date) )
    => result.kind \in {"InvalidDateFormat", "InvalidDate"}

====
